---- MODULE Spec2Model ----
(***************************************************************************)
(* Process tier of mandel.c: the parent opens one named semaphore per      *)
(* child, forks the children, waits for them and unlinks the semaphores;   *)
(* each child waits for its semaphore, renders and stores its block of     *)
(* frames, posts the semaphore of the next child and exits.                *)
(***************************************************************************)
EXTENDS Integers, Sequences, FiniteSets, TLC

\* #define NUM_FRAMES 50
NUM_FRAMES == 50

\* double xscale = 4 (default of -s)
xscale == 4

\* Largest small value of -c that is explored.
MaxChildren == 3

\* Values of -c: the small counts, and one count above NUM_FRAMES, where
\* frames_per_child is 0 and the trailing children get an empty range.
ChildCounts == (1..MaxChildren) \cup {NUM_FRAMES + 1}

VARIABLES
    num_children,   \* int num_children, fixed after getopt
    ppc,            \* position of the parent in main
    pidx,           \* loop index of the parent (i, child)
    named,          \* names /child_sem_<i> that exist in the system
    semval,         \* value of the semaphore behind /child_sem_<i>
    cpc,            \* position of each child process
    frame,          \* loop variable frame of each child
    start_frame,    \* local start_frame of each child
    end_frame,      \* local end_frame of each child
    stored,         \* sequence of the frames written by storeJpegImageFile
    posted,         \* children that have called sem_post
    reaped,         \* number of children whose termination wait() returned
    printed,        \* "All images generated" was printed
    exit_status,    \* exit status of the parent, -1 while it runs
    num_threads,    \* int num_threads, fixed after getopt
    run,            \* number of the run of the program, counted from 1
    image_height,   \* img->height (and img->width) of the frame being rendered
    rpc,            \* position of the thread that runs generateMandelFrame
    tidx,           \* loop index t of compute_image
    thread_data,    \* ThreadData thread_data[num_threads], as far as set
    tpc,            \* position of each worker thread
    trow,           \* loop variable j of each worker thread
    raster,         \* img->data: the colour of each pixel, by row and column
    writes,         \* number of times each row has been written by a thread
    stored_raster,  \* the raster storeJpegImageFile was given, <<>> before
    call,           \* a call of iterations_at_point or iteration_to_color
    floop,          \* x, y and iter of iterations_at_point
    fret,           \* value the called function returned
    fpc             \* position in the called function

\* The state of the call of a pixel function.
pure_vars == <<call, floop, fret, fpc>>

\* The state of the rendering of one frame.
render_vars == <<image_height, rpc, tidx, thread_data, tpc, trow, raster,
                 writes, stored_raster>>

\* What no step of the parent or of a child process changes.
other_vars == <<num_threads, run, render_vars, pure_vars>>

\* The state of the process tier.
proc_vars == <<num_children, ppc, pidx, named, semval, cpc, frame, start_frame,
               end_frame, stored, posted, reaped, printed, exit_status, run>>

vars == <<num_children, ppc, pidx, named, semval, cpc, frame, start_frame,
          end_frame, stored, posted, reaped, printed, exit_status, other_vars>>

Children == 0..(num_children - 1)

----------------------------------------------------------------------------
\* Frame assignment (main, lines 127-129 and 153-159)

FramesPerChildRoundedUp == (NUM_FRAMES + num_children - 1) \div num_children

\* int frames_per_child = NUM_FRAMES / num_children
frames_per_child == NUM_FRAMES \div num_children

\* int remaining_frames = NUM_FRAMES % num_children
remaining_frames == NUM_FRAMES % num_children

StartFrameNoOffset(child) == child * frames_per_child + 1

\* start_frame = child * frames_per_child
\*     + (child < remaining_frames ? child : remaining_frames) + 1
StartFrame(child) ==
    child * frames_per_child
        + (IF child < remaining_frames THEN child ELSE remaining_frames) + 1

EndFrameNoExtra(child) == StartFrame(child) + frames_per_child - 1

\* end_frame = start_frame + frames_per_child - 1, and end_frame++ when
\* child < remaining_frames
EndFrame(child) ==
    IF child < remaining_frames
        THEN StartFrame(child) + frames_per_child - 1 + 1
        ELSE StartFrame(child) + frames_per_child - 1

\* double scale = xscale / (1 + frame * 0.1), kept as the exact fraction
\* (10 * xscale) / (10 + frame): <<numerator, denominator>>.
ScaleOf(f) == <<10 * xscale, 10 + f>>

\* What one call of generateMandelFrame leaves on disk: the number in the
\* file name "<prefix>_<frame>.jpg" and the scale the raster was computed at.
FrameFile(f) == [name |-> f, scale |-> ScaleOf(f)]

----------------------------------------------------------------------------
\* Semaphores

SemInitValueAllOne(i) == 1

\* sem_open(sem_name, O_CREAT, 0644, (i == 0) ? 1 : 0)
SemInitValue(i) == IF i = 0 THEN 1 ELSE 0

SemAvailableAlways(child) == TRUE

\* sem_wait returns only when the value is positive
SemAvailable(child) == semval[child] > 0

HasSuccessorSkipLast(child) == child + 2 < num_children

\* if (child + 1 < num_children)
HasSuccessor(child) == child + 1 < num_children

Terminated == {c \in Children : cpc[c] \in {"exited", "crashed"}}

AllReapedNoWait == TRUE

\* wait(NULL) > 0 fails (ECHILD) once every forked child has been reaped
AllReaped == reaped = Cardinality({c \in Children : cpc[c] # "unborn"})

----------------------------------------------------------------------------
\* No frame is being rendered thread by thread: in the process tier
\* generateMandelFrame is one step of a child.
RenderIdle ==
    /\ image_height = 0
    /\ rpc = "idle"
    /\ tidx = 0
    /\ thread_data = <<>>
    /\ tpc = <<>>
    /\ trow = <<>>
    /\ raster = <<>>
    /\ writes = <<>>
    /\ stored_raster = <<>>

\* No pixel function is being called on its own.
PureIdle ==
    /\ call = [fn |-> "none"]
    /\ floop = [x |-> 0, y |-> 0, iter |-> 0]
    /\ fret = 0
    /\ fpc = "idle"

Init ==
    /\ num_children \in ChildCounts
    /\ ppc = "sem_open"
    /\ pidx = 0
    /\ named = {}
    /\ semval = [i \in Children |-> 0]
    /\ cpc = [c \in Children |-> "unborn"]
    /\ frame = [c \in Children |-> 0]
    /\ start_frame = [c \in Children |-> 0]
    /\ end_frame = [c \in Children |-> 0]
    /\ stored = <<>>
    /\ posted = {}
    /\ reaped = 0
    /\ printed = FALSE
    /\ exit_status = -1
    /\ num_threads = 1
    /\ run = 1
    /\ RenderIdle
    /\ PureIdle

----------------------------------------------------------------------------
\* Parent

\* One pass of the loop of lines 133-137: sem_open with O_CREAT creates the
\* semaphore with its initial value only when the name does not exist yet.
SemOpen ==
    /\ ppc = "sem_open"
    /\ named' = named \cup {pidx}
    /\ semval' = IF pidx \in named THEN semval
                 ELSE [semval EXCEPT ![pidx] = SemInitValue(pidx)]
    /\ IF pidx + 1 < num_children
          THEN /\ pidx' = pidx + 1
               /\ ppc' = "sem_open"
          ELSE /\ pidx' = 0
               /\ ppc' = "fork"
    /\ UNCHANGED <<other_vars,
                   num_children, cpc, frame, start_frame, end_frame, stored,
                   posted, reaped, printed, exit_status>>

\* One pass of the loop of line 139 with a successful fork: the child starts
\* at its sem_wait, the parent goes on to the next child or to the wait loop.
Fork ==
    /\ ppc = "fork"
    /\ cpc' = [cpc EXCEPT ![pidx] = "sem_wait"]
    /\ IF pidx + 1 < num_children
          THEN /\ pidx' = pidx + 1
               /\ ppc' = "fork"
          ELSE /\ pidx' = 0
               /\ ppc' = "wait"
    /\ UNCHANGED <<other_vars,
                   num_children, named, semval, frame, start_frame, end_frame,
                   stored, posted, reaped, printed, exit_status>>

\* pid < 0: perror, exit(1); nothing is waited for and nothing is unlinked.
ForkFail ==
    /\ ppc = "fork"
    /\ ppc' = "failed"
    /\ exit_status' = 1
    /\ UNCHANGED <<other_vars,
                   num_children, pidx, named, semval, cpc, frame, start_frame,
                   end_frame, stored, posted, reaped, printed>>

\* wait(NULL) returns the pid of a terminated child; pid and status are dropped.
Wait ==
    /\ ppc = "wait"
    /\ reaped < Cardinality(Terminated)
    /\ reaped' = reaped + 1
    /\ UNCHANGED <<other_vars,
                   num_children, ppc, pidx, named, semval, cpc, frame,
                   start_frame, end_frame, stored, posted, printed, exit_status>>

\* wait(NULL) returns -1: the loop of line 187 ends.
WaitEnd ==
    /\ ppc = "wait"
    /\ AllReaped
    /\ ppc' = "sem_unlink"
    /\ pidx' = 0
    /\ UNCHANGED <<other_vars,
                   num_children, named, semval, cpc, frame, start_frame,
                   end_frame, stored, posted, reaped, printed, exit_status>>

\* One pass of the loop of lines 190-194.
SemUnlink ==
    /\ ppc = "sem_unlink"
    /\ named' = named \ {pidx}
    /\ IF pidx + 1 < num_children
          THEN /\ pidx' = pidx + 1
               /\ ppc' = "sem_unlink"
          ELSE /\ pidx' = 0
               /\ ppc' = "print"
    /\ UNCHANGED <<other_vars,
                   num_children, semval, cpc, frame, start_frame, end_frame,
                   stored, posted, reaped, printed, exit_status>>

\* printf("All images generated\n"); return 0;
Finish ==
    /\ ppc = "print"
    /\ printed' = TRUE
    /\ exit_status' = 0
    /\ ppc' = "done"
    /\ UNCHANGED <<other_vars,
                   num_children, pidx, named, semval, cpc, frame, start_frame,
                   end_frame, stored, posted, reaped>>

Parent == SemOpen \/ Fork \/ Wait \/ WaitEnd \/ SemUnlink \/ Finish

----------------------------------------------------------------------------
\* Child process `child`

\* sem_wait(semaphores[child]), then the frame range and the loop's start.
SemWait(child) ==
    /\ cpc[child] = "sem_wait"
    /\ SemAvailable(child)
    /\ semval' = [semval EXCEPT ![child] = @ - 1]
    /\ start_frame' = [start_frame EXCEPT ![child] = StartFrame(child)]
    /\ end_frame' = [end_frame EXCEPT ![child] = EndFrame(child)]
    /\ frame' = [frame EXCEPT ![child] = StartFrame(child)]
    /\ cpc' = [cpc EXCEPT ![child] = "loop"]
    /\ UNCHANGED <<other_vars,
                   num_children, ppc, pidx, named, stored, posted, reaped,
                   printed, exit_status>>

\* One pass of the loop of lines 165-173: generateMandelFrame renders the
\* frame at `scale` and stores it under the name built from `frame`.
GenerateFrame(child) ==
    /\ cpc[child] = "loop"
    /\ frame[child] <= end_frame[child]
    /\ stored' = Append(stored, FrameFile(frame[child]))
    /\ frame' = [frame EXCEPT ![child] = @ + 1]
    /\ UNCHANGED <<other_vars,
                   num_children, ppc, pidx, named, semval, cpc, start_frame,
                   end_frame, posted, reaped, printed, exit_status>>

\* frame <= end_frame fails: the loop ends.
LoopEnd(child) ==
    /\ cpc[child] = "loop"
    /\ frame[child] > end_frame[child]
    /\ cpc' = [cpc EXCEPT ![child] = "sem_post"]
    /\ UNCHANGED <<other_vars,
                   num_children, ppc, pidx, named, semval, frame, start_frame,
                   end_frame, stored, posted, reaped, printed, exit_status>>

\* Lines 176-178: signal the next child, if it exists.
SemPost(child) ==
    /\ cpc[child] = "sem_post"
    /\ IF HasSuccessor(child)
          THEN /\ semval' = [semval EXCEPT ![child + 1] = @ + 1]
               /\ posted' = posted \cup {child}
          ELSE UNCHANGED <<semval, posted>>
    /\ cpc' = [cpc EXCEPT ![child] = "sem_close"]
    /\ UNCHANGED <<other_vars,
                   num_children, ppc, pidx, named, frame, start_frame,
                   end_frame, stored, reaped, printed, exit_status>>

\* sem_close(semaphores[child]); exit(0);
Exit(child) ==
    /\ cpc[child] = "sem_close"
    /\ cpc' = [cpc EXCEPT ![child] = "exited"]
    /\ UNCHANGED <<other_vars,
                   num_children, ppc, pidx, named, semval, frame, start_frame,
                   end_frame, stored, posted, reaped, printed, exit_status>>

\* A child that is running its code after sem_wait is ended by a signal
\* (generateMandelFrame checks no result of the image library).
Crash(child) ==
    /\ cpc[child] \in {"loop", "sem_post", "sem_close"}
    /\ cpc' = [cpc EXCEPT ![child] = "crashed"]
    /\ UNCHANGED <<other_vars,
                   num_children, ppc, pidx, named, semval, frame, start_frame,
                   end_frame, stored, posted, reaped, printed, exit_status>>

\* Lines 176-182 run without another process being scheduled in between.
PostAndExit(child) ==
    /\ cpc[child] = "sem_post"
    /\ IF HasSuccessor(child)
          THEN /\ semval' = [semval EXCEPT ![child + 1] = @ + 1]
               /\ posted' = posted \cup {child}
          ELSE UNCHANGED <<semval, posted>>
    /\ cpc' = [cpc EXCEPT ![child] = "exited"]
    /\ UNCHANGED <<other_vars,
                   num_children, ppc, pidx, named, frame, start_frame,
                   end_frame, stored, reaped, printed, exit_status>>

\* Runs with few children explore every interleaving of a child's last
\* steps (sem_post, then sem_close and exit) with the other processes. In a
\* run with more children than MaxChildren those steps are scheduled
\* together: any subset of the children could otherwise sit between its
\* sem_post and its exit, one state for each subset.
Narrow == num_children <= MaxChildren

Child(child) ==
    \/ SemWait(child)
    \/ GenerateFrame(child)
    \/ LoopEnd(child)
    \/ Narrow /\ SemPost(child)
    \/ Narrow /\ Exit(child)
    \/ PostAndExit(child)

----------------------------------------------------------------------------
\* A run in which every fork succeeds and no child is killed.
Next == Parent \/ \E child \in Children : Child(child)

Spec == Init /\ [][Next]_vars

\* The scheduler lets every process that can take a step take one.
Fairness ==
    /\ WF_vars(Parent)
    /\ \A child \in 0..NUM_FRAMES : WF_vars(child \in Children /\ Child(child))

FairSpec == Spec /\ Fairness

\* Runs in which running children may be killed.
NextCrash == Next \/ \E child \in Children : Crash(child)

\* No fairness for Crash: a failure may happen, never must.
FairCrashSpec == Init /\ [][NextCrash]_vars /\ Fairness

\* Runs in which fork may fail and running children may be killed.
NextFail == Next \/ ForkFail \/ \E child \in Children : Crash(child)

FailSpec == Init /\ [][NextFail]_vars

----------------------------------------------------------------------------
\* Command line (main, lines 78-129)

\* Values of -c that atoi can return, valid or not.
ArgChildCounts == (-1)..MaxChildren

\* Values of -t that atoi can return: the limits of 1..20 and their
\* neighbours.
ArgThreadCounts == {0, 1, 20, 21}

InitArgs ==
    /\ num_children \in ArgChildCounts
    /\ num_threads \in ArgThreadCounts
    /\ ppc = "getopt"
    /\ pidx = 0
    /\ named = {}
    /\ semval = [i \in Children |-> 0]
    /\ cpc = [c \in Children |-> "unborn"]
    /\ frame = [c \in Children |-> 0]
    /\ start_frame = [c \in Children |-> 0]
    /\ end_frame = [c \in Children |-> 0]
    /\ stored = <<>>
    /\ posted = {}
    /\ reaped = 0
    /\ printed = FALSE
    /\ exit_status = -1
    /\ run = 1
    /\ RenderIdle
    /\ PureIdle

\* case 't': if (num_threads < 1 || num_threads > 20) { fprintf; exit(1); }
RejectThreads ==
    /\ ppc = "getopt"
    /\ num_threads < 1 \/ num_threads > 20
    /\ ppc' = "rejected"
    /\ exit_status' = 1
    /\ UNCHANGED <<other_vars, num_children, pidx, named, semval, cpc, frame,
                   start_frame, end_frame, stored, posted, reaped, printed>>

\* Lines 125-132 with the options accepted; case 'c' checks nothing. With
\* num_children = 0 the division NUM_FRAMES / num_children is undefined and
\* with num_children < 1 so is the array semaphores[num_children]: the run
\* either goes on or is ended by a signal (SIGFPE is 8, SIGSEGV is 11).
Setup ==
    /\ ppc = "getopt"
    /\ ~(num_threads < 1 \/ num_threads > 20)
    /\ \/ /\ num_children >= 1
          /\ ppc' = "sem_open"
          /\ UNCHANGED exit_status
       \/ /\ num_children < 1
          /\ ppc' = "no_children"
          /\ UNCHANGED exit_status
       \/ /\ num_children < 1
          /\ ppc' = "killed"
          /\ exit_status' = 128 + (IF num_children = 0 THEN 8 ELSE 11)
    /\ UNCHANGED <<other_vars, num_children, pidx, named, semval, cpc, frame,
                   start_frame, end_frame, stored, posted, reaped, printed>>

\* num_children < 1: the loops of lines 133, 139 and 190 make no pass and
\* wait(NULL) returns -1 at once, as the process has no child.
SkipLoops ==
    /\ ppc = "no_children"
    /\ ppc' = "print"
    /\ UNCHANGED <<other_vars, num_children, pidx, named, semval, cpc, frame,
                   start_frame, end_frame, stored, posted, reaped, printed,
                   exit_status>>

NextArgs == RejectThreads \/ Setup \/ SkipLoops \/ Next

\* Runs from the command line on, with any -c and -t.
ArgSpec == InitArgs /\ [][NextArgs]_vars

----------------------------------------------------------------------------
\* Failing stores

\* Frames whose store may fail: the first frame, the first frame of a later
\* block and the last frame.
FailableFrames == {1, NUM_FRAMES \div 2 + 1, NUM_FRAMES}

StoreFailExits(child) ==
    /\ cpc[child] = "loop"
    /\ frame[child] <= end_frame[child]
    /\ frame[child] \in FailableFrames
    /\ frame' = [frame EXCEPT ![child] = @ + 1]
    /\ cpc' = [cpc EXCEPT ![child] = "exited"]
    /\ UNCHANGED <<other_vars, num_children, ppc, pidx, named, semval,
                   start_frame, end_frame, stored, posted, reaped, printed,
                   exit_status>>

\* One pass of the loop of lines 165-173 in which storeJpegImageFile fails:
\* generateMandelFrame returns nothing and drops the result of the store, so
\* the child prints and goes on to the next frame; no file is written.
StoreFail(child) ==
    /\ cpc[child] = "loop"
    /\ frame[child] <= end_frame[child]
    /\ frame[child] \in FailableFrames
    /\ frame' = [frame EXCEPT ![child] = @ + 1]
    /\ UNCHANGED <<other_vars, num_children, ppc, pidx, named, semval, cpc,
                   start_frame, end_frame, stored, posted, reaped, printed,
                   exit_status>>

NextStoreFail == Next \/ \E child \in Children : StoreFail(child)

\* No fairness for StoreFail: a store may fail, never must.
FairStoreFailSpec == Init /\ [][NextStoreFail]_vars /\ Fairness

----------------------------------------------------------------------------
\* Several runs of the program on one system

\* Number of runs that are explored.
MaxRuns == 2

\* The program is started again after the parent of the last run has exited
\* and its children have terminated. The names /child_sem_<i> and the
\* semaphores behind them belong to the system and stay as the run left them.
NewRun ==
    /\ run < MaxRuns
    /\ ppc \in {"done", "failed"}
    /\ \A c \in Children : cpc[c] \in {"unborn", "exited", "crashed"}
    /\ run' = run + 1
    /\ ppc' = "sem_open"
    /\ pidx' = 0
    /\ cpc' = [c \in Children |-> "unborn"]
    /\ frame' = [c \in Children |-> 0]
    /\ start_frame' = [c \in Children |-> 0]
    /\ end_frame' = [c \in Children |-> 0]
    /\ stored' = <<>>
    /\ posted' = {}
    /\ reaped' = 0
    /\ printed' = FALSE
    /\ exit_status' = -1
    /\ UNCHANGED <<num_children, named, semval, num_threads, render_vars,
                   pure_vars>>

NextRuns == NextFail \/ NewRun

\* Runs with few children: a failed fork leaves a different system behind
\* for each child it can hit.
InitRuns == Init /\ num_children <= MaxChildren

RunsSpec == InitRuns /\ [][NextRuns]_vars

----------------------------------------------------------------------------
\* Pixel functions (iterations_at_point, iteration_to_color)

\* int max = 1000 (default of -m)
DefaultMax == 1000

\* Largest small value of max that is explored.
MaxIter == 4

\* Points are taken on the integer grid GridMin..GridMax in both directions:
\* their orbits are computed exactly in double precision, as far as the loop
\* follows them.
GridMax == 2

GridMin == -GridMax

IterContinueStrict(s, max) == (s.x * s.x + s.y * s.y < 4) /\ s.iter < max

\* while ((x*x + y*y <= 4) && iter < max)
IterContinue(s, max) == (s.x * s.x + s.y * s.y <= 4) /\ s.iter < max

\* xt = x*x - y*y + x0; yt = 2*x*y + y0; x = xt; y = yt; iter++;
IterBody(s, x0, y0) ==
    [x |-> s.x * s.x - s.y * s.y + x0,
     y |-> 2 * s.x * s.y + y0,
     iter |-> s.iter + 1]

RECURSIVE IterLoop(_, _, _, _)
IterLoop(s, x0, y0, max) ==
    IF IterContinue(s, max)
        THEN IterLoop(IterBody(s, x0, y0), x0, y0, max)
        ELSE s.iter

\* int iterations_at_point(double x, double y, int max)
iterations_at_point(x, y, max) ==
    IterLoop([x |-> x, y |-> y, iter |-> 0], x, y, max)

\* The int product 0xFFFFFF * iters for 0 <= iters < 2^15, computed in
\* 16-bit halves: 0xFFFFFF = 255 * 2^16 + 65535.
ProductHigh(iters) == 255 * iters + (65535 * iters) \div 65536

ProductLow(iters) == (65535 * iters) % 65536

\* The product does not fit a 32-bit signed int.
ProductOverflows(iters) == ProductHigh(iters) >= 32768

\* The product as a 32-bit signed int, wrapped around when it does not fit.
Int32Product(iters) ==
    LET high == ProductHigh(iters) % 65536
    IN  IF high >= 32768
            THEN (high - 65536) * 65536 + ProductLow(iters)
            ELSE high * 65536 + ProductLow(iters)

\* int color = p / (double)max: the quotient of doubles, truncated towards
\* zero by the conversion to int. For |p| < 2^31 and max < 2^21 the rounding
\* of the quotient never reaches the next integer.
TruncatedQuotient(p, max) ==
    IF p >= 0 THEN p \div max ELSE -((-p) \div max)

IterationToColorNoScale(iters, max) == iters

\* int iteration_to_color(int iters, int max), with the product wrapped
\* around on overflow
iteration_to_color(iters, max) == TruncatedQuotient(Int32Product(iters), max)

\* Values of max for the calls of iteration_to_color.
ColorMaxes == (1..MaxIter) \cup {DefaultMax}

IterCalls ==
    {[fn |-> "iterations_at_point", x |-> px, y |-> py, max |-> m] :
        px \in GridMin..GridMax, py \in GridMin..GridMax,
        m \in (0..MaxIter) \cup {DefaultMax}}

ColorCalls ==
    UNION {{[fn |-> "iteration_to_color", iters |-> i, max |-> m] : i \in 0..m} :
              m \in ColorMaxes}

\* The process tier and the rendering are not running.
ProcIdle ==
    /\ num_children = 1
    /\ ppc = "idle"
    /\ pidx = 0
    /\ named = {}
    /\ semval = [i \in {0} |-> 0]
    /\ cpc = [c \in {0} |-> "unborn"]
    /\ frame = [c \in {0} |-> 0]
    /\ start_frame = [c \in {0} |-> 0]
    /\ end_frame = [c \in {0} |-> 0]
    /\ stored = <<>>
    /\ posted = {}
    /\ reaped = 0
    /\ printed = FALSE
    /\ exit_status = -1
    /\ run = 1

\* A function is called with arguments from the sets above.
InitPure ==
    /\ ProcIdle
    /\ num_threads = 1
    /\ RenderIdle
    /\ call \in IterCalls \cup ColorCalls
    /\ floop = IF call.fn = "iterations_at_point"
                  THEN [x |-> call.x, y |-> call.y, iter |-> 0]
                  ELSE [x |-> 0, y |-> 0, iter |-> 0]
    /\ fret = 0
    /\ fpc = "body"

\* One pass of the loop of iterations_at_point.
IterStep ==
    /\ fpc = "body"
    /\ call.fn = "iterations_at_point"
    /\ IterContinue(floop, call.max)
    /\ floop' = IterBody(floop, call.x, call.y)
    /\ UNCHANGED <<proc_vars, num_threads, render_vars, call, fret, fpc>>

\* The loop ends: return iter;
IterReturn ==
    /\ fpc = "body"
    /\ call.fn = "iterations_at_point"
    /\ ~IterContinue(floop, call.max)
    /\ fret' = floop.iter
    /\ fpc' = "returned"
    /\ UNCHANGED <<proc_vars, num_threads, render_vars, call, floop>>

\* int color = 0xFFFFFF*iters/(double)max; return color;
ColorReturn ==
    /\ fpc = "body"
    /\ call.fn = "iteration_to_color"
    /\ fret' = iteration_to_color(call.iters, call.max)
    /\ fpc' = "returned"
    /\ UNCHANGED <<proc_vars, num_threads, render_vars, call, floop>>

\* Signed overflow is undefined: a build that traps on it (-ftrapv) ends
\* the process instead of wrapping around.
ColorTrap ==
    /\ fpc = "body"
    /\ call.fn = "iteration_to_color"
    /\ ProductOverflows(call.iters)
    /\ fpc' = "trapped"
    /\ UNCHANGED <<proc_vars, num_threads, render_vars, call, floop, fret>>

NextPure == IterStep \/ IterReturn \/ ColorReturn \/ ColorTrap

PureSpec == InitPure /\ [][NextPure]_vars

----------------------------------------------------------------------------
\* Thread tier: one call of generateMandelFrame (lines 42-49, 241-287)

\* if (num_threads < 1 || num_threads > 20)
ThreadLimit == 20

\* Largest image height (and width) that is explored.
MaxHeight == 3

\* Largest thread count whose threads are interleaved row by row.
MaxThreads == 3

Threads == 0..(num_threads - 1)

Rows == 0..(image_height - 1)

\* The image is square: img->width is img->height.
Cols == 0..(image_height - 1)

\* int rows_per_thread = img->height / num_threads
rows_per_thread == image_height \div num_threads

\* int remaining_rows = img->height % num_threads
remaining_rows == image_height % num_threads

\* thread_data[t].start_row = t * rows_per_thread
BandStart(t) == t * rows_per_thread

BandEndNoRemainder(t) == BandStart(t) + rows_per_thread

\* thread_data[t].end_row = start_row + rows_per_thread, plus remaining_rows
\* for t == num_threads - 1
BandEnd(t) ==
    IF t = num_threads - 1
        THEN BandStart(t) + rows_per_thread + remaining_rows
        ELSE BandStart(t) + rows_per_thread

\* The frame is rendered with centre (0, 0) and scale 2 * image_height, so
\* that every pixel maps to a point with integer coordinates and the doubles
\* of the code are exact: xmin = x - scale / 2, xmax = x + scale / 2, the
\* same for y; max is MaxIter.
ThreadDataOf(t) ==
    [xmin |-> -image_height, xmax |-> image_height,
     ymin |-> -image_height, ymax |-> image_height,
     max |-> MaxIter, start_row |-> BandStart(t), end_row |-> BandEnd(t)]

\* double x = data->xmin + i * (data->xmax - data->xmin) / width
PlaneX(d, i) == d.xmin + (i * (d.xmax - d.xmin)) \div image_height

PlaneYBandRelative(d, j) ==
    d.ymin + ((j - d.start_row) * (d.ymax - d.ymin)) \div image_height

\* double y = data->ymin + j * (data->ymax - data->ymin) / img->height
PlaneY(d, j) == d.ymin + (j * (d.ymax - d.ymin)) \div image_height

\* iteration_to_color(iterations_at_point(x, y, data->max), data->max)
PixelColor(d, i, j) ==
    iteration_to_color(
        iterations_at_point(PlaneX(d, i), PlaneY(d, j), d.max), d.max)

\* The inner loop of compute_image_thread: setPixelCOLOR for each i of row j.
RowColors(d, j) == [i \in Cols |-> PixelColor(d, i, j)]

\* The state at the call of compute_image: the image is allocated and
\* setImageCOLOR(img, 0) has set every pixel to 0.
InitRender ==
    /\ ProcIdle
    /\ PureIdle
    /\ num_threads \in 1..ThreadLimit
    /\ image_height \in 1..MaxHeight
    /\ rpc = "create"
    /\ tidx = 0
    /\ thread_data = [t \in Threads |->
                        [xmin |-> 0, xmax |-> 0, ymin |-> 0, ymax |-> 0,
                         max |-> 0, start_row |-> 0, end_row |-> 0]]
    /\ tpc = [t \in Threads |-> "none"]
    /\ trow = [t \in Threads |-> 0]
    /\ raster = [j \in Rows |-> [i \in Cols |-> 0]]
    /\ writes = [j \in Rows |-> 0]
    /\ stored_raster = <<>>

\* The loop of line 269 goes on to the next t, or ends.
CreateLoopAdvance ==
    IF tidx + 1 < num_threads
        THEN /\ tidx' = tidx + 1
             /\ rpc' = "create"
        ELSE /\ tidx' = 0
             /\ rpc' = "join"

\* One pass of the loop of lines 269-283: thread_data[t] is filled in and
\* pthread_create starts the thread.
Create ==
    /\ rpc = "create"
    /\ thread_data' = [thread_data EXCEPT ![tidx] = ThreadDataOf(tidx)]
    /\ tpc' = [tpc EXCEPT ![tidx] = "running"]
    /\ trow' = [trow EXCEPT ![tidx] = BandStart(tidx)]
    /\ CreateLoopAdvance
    /\ UNCHANGED <<proc_vars, pure_vars, num_threads, image_height, raster,
                   writes, stored_raster>>

\* The rows of the band of d, each written once more.
RasterWithBand(d) ==
    [j \in Rows |-> IF d.start_row <= j /\ j < d.end_row
                       THEN RowColors(d, j) ELSE raster[j]]

WritesWithBand(d) ==
    [j \in Rows |-> IF d.start_row <= j /\ j < d.end_row
                       THEN writes[j] + 1 ELSE writes[j]]

\* One pass of the loop of lines 269-283 after which the new thread runs to
\* its end before any other thread is scheduled.
CreateAndRun ==
    /\ rpc = "create"
    /\ thread_data' = [thread_data EXCEPT ![tidx] = ThreadDataOf(tidx)]
    /\ tpc' = [tpc EXCEPT ![tidx] = "done"]
    /\ trow' = [trow EXCEPT ![tidx] = BandEnd(tidx)]
    /\ raster' = RasterWithBand(ThreadDataOf(tidx))
    /\ writes' = WritesWithBand(ThreadDataOf(tidx))
    /\ CreateLoopAdvance
    /\ UNCHANGED <<proc_vars, pure_vars, num_threads, image_height,
                   stored_raster>>

\* pthread_create fails: thread_data[t] is filled in, no thread runs and
\* threads[t] is not set; the result of pthread_create is not looked at.
CreateFail ==
    /\ rpc = "create"
    /\ thread_data' = [thread_data EXCEPT ![tidx] = ThreadDataOf(tidx)]
    /\ tpc' = [tpc EXCEPT ![tidx] = "failed"]
    /\ CreateLoopAdvance
    /\ UNCHANGED <<proc_vars, pure_vars, num_threads, image_height, trow,
                   raster, writes, stored_raster>>

\* One pass of the loop over j in compute_image_thread: the row j is computed
\* and written pixel by pixel.
ThreadRow(t) ==
    /\ tpc[t] = "running"
    /\ trow[t] < thread_data[t].end_row
    /\ raster' = [raster EXCEPT ![trow[t]] = RowColors(thread_data[t], trow[t])]
    /\ writes' = [writes EXCEPT ![trow[t]] = @ + 1]
    /\ trow' = [trow EXCEPT ![t] = @ + 1]
    /\ UNCHANGED <<proc_vars, pure_vars, num_threads, image_height, rpc, tidx,
                   thread_data, tpc, stored_raster>>

\* j < data->end_row fails: return NULL;
ThreadEnd(t) ==
    /\ tpc[t] = "running"
    /\ trow[t] >= thread_data[t].end_row
    /\ tpc' = [tpc EXCEPT ![t] = "done"]
    /\ UNCHANGED <<proc_vars, pure_vars, num_threads, image_height, rpc, tidx,
                   thread_data, trow, raster, writes, stored_raster>>

\* The loop of line 284 goes on to the next t, or compute_image returns.
JoinLoopAdvance ==
    IF tidx + 1 < num_threads
        THEN /\ tidx' = tidx + 1
             /\ rpc' = "join"
        ELSE /\ tidx' = 0
             /\ rpc' = "store"

JoinReadyNoWait(t) == TRUE

\* pthread_join(threads[t], NULL) returns when thread t has ended
JoinReady(t) == tpc[t] = "done"

\* One pass of the loop of lines 284-286.
Join ==
    /\ rpc = "join"
    /\ tpc[tidx] # "failed"
    /\ JoinReady(tidx)
    /\ JoinLoopAdvance
    /\ UNCHANGED <<proc_vars, pure_vars, num_threads, image_height,
                   thread_data, tpc, trow, raster, writes, stored_raster>>

\* pthread_join on a threads[t] that pthread_create did not set: undefined.
\* The call returns an error, which is not looked at, or ends the process.
JoinInvalid ==
    /\ rpc = "join"
    /\ tpc[tidx] = "failed"
    /\ \/ JoinLoopAdvance
       \/ rpc' = "killed" /\ UNCHANGED tidx
    /\ UNCHANGED <<proc_vars, pure_vars, num_threads, image_height,
                   thread_data, tpc, trow, raster, writes, stored_raster>>

\* storeJpegImageFile(img, outfile); freeRawImage(img);
Store ==
    /\ rpc = "store"
    /\ stored_raster' = raster
    /\ rpc' = "done"
    /\ UNCHANGED <<proc_vars, pure_vars, num_threads, image_height, tidx,
                   thread_data, tpc, trow, raster, writes>>

\* Runs with few threads explore every interleaving of the threads' rows
\* with each other and with the creating thread; with more threads than
\* MaxThreads each thread runs to its end as soon as it is created.
FewThreads == num_threads <= MaxThreads

NextRender ==
    \/ FewThreads /\ Create
    \/ CreateAndRun
    \/ \E t \in Threads : ThreadRow(t)
    \/ \E t \in Threads : ThreadEnd(t)
    \/ Join
    \/ Store

\* The rendering of one frame in which every pthread_create succeeds.
RenderSpec == InitRender /\ [][NextRender]_vars

\* A failing pthread_create is explored in the runs with few threads.
NextRenderFail ==
    \/ NextRender
    \/ FewThreads /\ CreateFail
    \/ JoinInvalid

\* The rendering of one frame in which pthread_create may fail.
RenderFailSpec == InitRender /\ [][NextRenderFail]_vars

----------------------------------------------------------------------------
\* Vocabulary of the properties

\* Children between the return of their sem_wait and their exit.
AfterWaitBeforeExit ==
    {c \in Children : cpc[c] \in {"loop", "sem_post", "sem_close"}}

\* Children that hold the token: sem_wait has returned, and the child has
\* neither passed its sem_post nor terminated.
TokenHolders == {c \in Children : cpc[c] \in {"loop", "sem_post"}}

\* Children whose sem_wait has returned.
Started == {c \in Children : cpc[c] \notin {"unborn", "sem_wait"}}

RECURSIVE SemSum(_)
SemSum(n) == IF n = 0 THEN 0 ELSE semval[n - 1] + SemSum(n - 1)

StoredNames == {stored[i].name : i \in 1..Len(stored)}

\* Number of frames in the range a child has computed.
BlockSize(c) == end_frame[c] - start_frame[c] + 1

----------------------------------------------------------------------------
\* C1 as stated: at most one child is between the return of its sem_wait and
\* its exit, and the children in that region plus the sum of the semaphore
\* values never exceed one.
C1_OneChildBetweenWaitAndExit ==
    /\ Cardinality(AfterWaitBeforeExit) <= 1
    /\ Cardinality(AfterWaitBeforeExit) + SemSum(num_children) <= 1

\* C1 amended: at most one child is between the return of its sem_wait and
\* its sem_post (its termination, for a child that posts nothing), so at
\* most one child renders; these token holders plus the sum of the semaphore
\* values never exceed one.
C1_MutualExclusion ==
    /\ Cardinality(TokenHolders) <= 1
    /\ Cardinality(TokenHolders) + SemSum(num_children) <= 1

\* A child renders while its predecessor has posted and not yet exited.
C1_Witness ==
    \E c \in Children :
        c > 0 /\ cpc[c] = "loop" /\ frame[c] > start_frame[c]
              /\ cpc[c - 1] = "sem_close"

\* C2: frames are stored in strictly increasing frame number; a child stores
\* a frame only when every frame of the child before it is stored already;
\* a child k > 0 is past its sem_wait only after child k-1 has posted.
C2_FrameOrder ==
    /\ \A i \in 1..(Len(stored) - 1) : stored[i].name < stored[i + 1].name
    /\ \A k \in Children \ {0} :
          /\ k \in Started => (k - 1) \in posted
          /\ (StartFrame(k)..EndFrame(k)) \cap StoredNames # {}
                => (StartFrame(k - 1)..EndFrame(k - 1)) \subseteq StoredNames

\* The last of several children has stored frames after the others' frames.
C2_Witness ==
    /\ num_children = MaxChildren
    /\ frame[num_children - 1] > start_frame[num_children - 1]
    /\ Len(stored) > 1

\* C3: once a child has been killed while it held the token, the wait loop
\* of the parent still ends and every child still gets past its sem_wait.
C3_CrashedHolderDoesNotBlock ==
    (\E c \in Children : cpc[c] = "crashed" /\ c \notin posted)
        ~> (ppc \in {"sem_unlink", "print", "done"} /\ Started = Children)

\* C4: without failures the parent eventually prints completion, and then
\* every child has acquired its token, posted its successor and exited, and
\* each of the frames 1..NUM_FRAMES has been stored exactly once.
C4_TerminatesComplete ==
    /\ <>printed
    /\ [](printed =>
            /\ \A c \in Children :
                  cpc[c] = "exited" /\ (HasSuccessor(c) => c \in posted)
            /\ Len(stored) = NUM_FRAMES
            /\ StoredNames = 1..NUM_FRAMES)

\* Completion was printed in a run with more children than frames.
C4_Witness == printed /\ num_children > NUM_FRAMES /\ Len(stored) = NUM_FRAMES

\* C5: the parent unlinks and prints only after every child has terminated.
C5_ParentWaitsForAll ==
    (ppc \in {"sem_unlink", "print", "done"} \/ printed)
        => \A c \in Children : cpc[c] \in {"exited", "crashed"}

\* The parent is unlinking after several children have run.
C5_Witness == ppc = "sem_unlink" /\ pidx = 1 /\ num_children = MaxChildren

\* C6: the ranges the children compute are contiguous and ascending, start
\* at frame 1, end at frame NUM_FRAMES, and each frame lies in exactly one.
C6_AssignmentPartition ==
    /\ \A c \in Started :
          /\ start_frame[c] <= end_frame[c] + 1
          /\ c = 0 => start_frame[c] = 1
          /\ c = num_children - 1 => end_frame[c] = NUM_FRAMES
          /\ (c + 1) \in Started => start_frame[c + 1] = end_frame[c] + 1
    /\ Started = Children =>
          \A f \in 1..NUM_FRAMES :
              Cardinality({c \in Children :
                  start_frame[c] <= f /\ f <= end_frame[c]}) = 1

\* Every child has computed its range, with more children than frames.
C6_Witness == Started = Children /\ num_children > NUM_FRAMES

C8_FiftyFramesThreeChildren ==
    (NUM_FRAMES = 50 /\ num_children = 3 /\ Started = Children) =>
        \/ <<BlockSize(0), BlockSize(1), BlockSize(2)>> = <<17, 17, 16>>
        \/ <<BlockSize(0), BlockSize(1), BlockSize(2)>> = <<16, 17, 17>>

\* The three children have computed their ranges and the last one has exited.
C8_Witness ==
    /\ NUM_FRAMES = 50
    /\ num_children = 3
    /\ Started = Children
    /\ cpc[2] = "exited"

\* C9: the frame stored under the number n was rendered at the scale
\* xscale / (1 + (n - 1) * 0.1), that is (10 * xscale) / (9 + n).
C9_ScaleUsesZeroBasedIndex ==
    \A i \in 1..Len(stored) :
        stored[i].scale[1] * (9 + stored[i].name) = 10 * xscale * stored[i].scale[2]

\* C10: when a child was killed, the parent does not print completion and
\* does not exit with status 0.
C10_ChildFailureSurfaced ==
    (\E c \in Children : cpc[c] = "crashed") => ~printed /\ exit_status # 0

\* C11: whenever the parent has exited, by return or by exit(1) after a
\* failed fork, no name /child_sem_<i> is left and no forked child is still
\* running or blocked.
C11_CleanupOnEveryExit ==
    exit_status # -1 =>
        /\ named = {}
        /\ \A c \in Children : cpc[c] \in {"unborn", "exited", "crashed"}

\* C12: with num_children < 1 or num_threads outside 1..20 no semaphore is
\* created, no child is forked, no frame is stored, completion is never
\* printed and the parent does not exit with status 0.
C12_InvalidCountsRejected ==
    (num_children < 1 \/ num_threads < 1 \/ num_threads > 20) =>
        /\ named = {}
        /\ \A c \in Children : cpc[c] = "unborn"
        /\ stored = <<>>
        /\ ~printed
        /\ exit_status # 0

\* C17: once the store of a frame has failed, every child still gets past
\* its sem_wait and every child with a successor posts it.
C17_StoreFailureKeepsChain ==
    (\E c \in Started : \E f \in start_frame[c]..(frame[c] - 1) :
            f \notin StoredNames)
        ~> (/\ Started = Children
            /\ \A c \in Children : HasSuccessor(c) => c \in posted)

\* The store of the first frame of a later block has failed and the owner
\* of that block has posted its successor.
C17_Witness ==
    \E c \in Children \ {0} :
        /\ start_frame[c] \in FailableFrames
        /\ frame[c] > start_frame[c]
        /\ start_frame[c] \notin StoredNames
        /\ c \in posted

\* C20: in every run, when the sem_open loop has ended, /child_sem_0 has the
\* value 1 and every other semaphore the value 0; and no child other than
\* child 0 gets past its sem_wait before its predecessor has posted.
C20_FreshTokenEachRun ==
    /\ (ppc = "fork" /\ pidx = 0) =>
          \A i \in Children : semval[i] = IF i = 0 THEN 1 ELSE 0
    /\ \A c \in Started : c > 0 => (c - 1) \in posted

\* floor(0xFFFFFF * iters / max) for 0 <= iters <= max: with
\* 0xFFFFFF = 4095 * 4097 and 4095 * iters = d * max + r it is
\* d * 4097 + floor(r * 4097 / max).
ExactColor(iters, max) ==
    ((4095 * iters) \div max) * 4097 + (((4095 * iters) % max) * 4097) \div max

\* C18: iteration_to_color(iters, max) returns floor(0xFFFFFF * iters / max),
\* a value in 0..0xFFFFFF, for every 0 <= iters <= max with max >= 1; for
\* iters = 500 and max = 1000 it is half of 0xFFFFFF, rounded down.
C18_ColorIsLinearRamp ==
    call.fn = "iteration_to_color" =>
        /\ fpc # "trapped"
        /\ fpc = "returned" =>
              /\ fret = ExactColor(call.iters, call.max)
              /\ 0 <= fret /\ fret <= 16777215
              /\ (call.iters = 500 /\ call.max = 1000) => fret = 8388607

\* The first n points of the orbit that starts at s for the point (x0, y0)
\* lie in the closed disc of radius 2.
RECURSIVE StaysInDisc(_, _, _, _)
StaysInDisc(s, x0, y0, n) ==
    \/ n = 0
    \/ /\ s.x * s.x + s.y * s.y <= 4
       /\ StaysInDisc([x |-> s.x * s.x - s.y * s.y + x0,
                        y |-> 2 * s.x * s.y + y0], x0, y0, n - 1)

\* C19: iterations_at_point makes at most max passes of its loop and returns
\* r with 0 <= r <= max; r = max exactly when none of the max points the loop
\* tests, z_0 .. z_(max-1), lies outside the disc of radius 2: every pass
\* starts from a point in the disc and leads to the next point of the orbit,
\* and a return with r < max happens at a point outside the disc; r = max at
\* (0,0) and r < 5 at (2,2).
C19_IterationsBounded ==
    /\ [](call.fn = "iterations_at_point" =>
            /\ 0 <= floop.iter /\ floop.iter <= call.max
            /\ fpc = "returned" =>
                  /\ fret = floop.iter
                  /\ fret < call.max => floop.x * floop.x + floop.y * floop.y > 4
                  /\ call.max <= MaxIter =>
                        (fret = call.max
                            <=> StaysInDisc([x |-> call.x, y |-> call.y],
                                            call.x, call.y, call.max))
                  /\ (call.x = 0 /\ call.y = 0) => fret = call.max
                  /\ (call.x = 2 /\ call.y = 2) => fret < 5)
    /\ [][(call.fn = "iterations_at_point" /\ floop' # floop) =>
            /\ floop.x * floop.x + floop.y * floop.y <= 4
            /\ floop'.x = floop.x * floop.x - floop.y * floop.y + call.x
            /\ floop'.y = 2 * floop.x * floop.y + call.y
            /\ floop'.iter = floop.iter + 1]_vars

\* A point whose orbit leaves the disc after some passes has returned.
C19_Witness ==
    /\ call.fn = "iterations_at_point"
    /\ fpc = "returned"
    /\ call.max = DefaultMax
    /\ 0 < fret /\ fret < call.max


----------------------------------------------------------------------------
\* Thread tier properties

\* The threads whose thread_data has been filled in by compute_image.
Dispatched == {t \in Threads : tpc[t] # "none"}

\* The rows of the band handed to thread t.
BandRows(t) ==
    {j \in Rows : thread_data[t].start_row <= j /\ j < thread_data[t].end_row}

\* The render has returned from compute_image.
Joined == rpc \in {"store", "done"}

\* C13: for an image of height >= 1 and any thread count in 1..20, also one
\* larger than the height, the bands handed to the threads are contiguous
\* and disjoint and cover the rows [0, height): the first band starts at row
\* 0, each band starts where the one before it ends, the last ends at
\* height, and every band has height / num_threads rows except the last,
\* which has height % num_threads more.  No row is written twice, and when
\* compute_image returns every row has been written exactly once.
C13_BandsPartitionRows ==
    /\ \A t \in Dispatched :
          /\ thread_data[t].end_row - thread_data[t].start_row =
                 (image_height \div num_threads) +
                 (IF t = num_threads - 1 THEN image_height % num_threads
                                         ELSE 0)
          /\ t = 0 => thread_data[t].start_row = 0
          /\ t > 0 => thread_data[t].start_row = thread_data[t - 1].end_row
          /\ t = num_threads - 1 => thread_data[t].end_row = image_height
          /\ \A u \in Dispatched : u # t => BandRows(t) \cap BandRows(u) = {}
    /\ \A j \in Rows : writes[j] <= 1
    /\ Joined =>
          /\ Dispatched = Threads
          /\ UNION {BandRows(t) : t \in Threads} = Rows
          /\ \A j \in Rows : writes[j] = 1

\* A finished render whose height is not a multiple of the thread count, with
\* several threads that each have rows.
C13_Witness ==
    /\ rpc = "done"
    /\ num_threads > 1
    /\ num_threads < image_height
    /\ image_height % num_threads # 0

\* A finished render with more threads than rows.
C13_WitnessMoreThreadsThanRows ==
    /\ rpc = "done"
    /\ num_threads > image_height

\* C14: storeJpegImageFile is called only after every dispatched thread has
\* finished; when the frame is stored every pixel has been written, and what
\* is stored is the raster as the threads left it.
C14_JoinAllBeforeStore ==
    Joined =>
        /\ \A t \in Threads : tpc[t] = "done" /\ trow[t] = thread_data[t].end_row
        /\ \A j \in Rows : writes[j] >= 1
        /\ rpc = "done" => stored_raster = raster

\* A frame is stored after threads that ran interleaved with each other.
C14_Witness ==
    /\ rpc = "done"
    /\ stored_raster = raster
    /\ num_threads = MaxThreads
    /\ image_height >= 2

\* C15: when starting a worker thread fails the frame is never stored with
\* the rows of that thread's band left at the background.
C15_ThreadStartFailureIsFatal ==
    rpc = "done" =>
        \A t \in Threads : tpc[t] = "failed" =>
            \A j \in BandRows(t) : writes[j] > 0

\* The raster that one thread with the whole image as its band computes.
SingleThreadData ==
    [xmin |-> -image_height, xmax |-> image_height,
     ymin |-> -image_height, ymax |-> image_height,
     max |-> MaxIter, start_row |-> 0, end_row |-> image_height]

SingleThreadRaster == [j \in Rows |-> RowColors(SingleThreadData, j)]

====
